---------------------------- MODULE Spec2Model ----------------------------
(***************************************************************************)
(* Model of the frame store (ImageSequence) of src/src/image_matrix.rs and *)
(* of its slide generator.                                                 *)
(*                                                                         *)
(* A frame is a Vec<bool>: a sequence of BOOLEAN, flat index k (0-based,   *)
(* as in the source) being element k+1.  bitmaps is the Vec of frames,     *)
(* frame index idx (0-based) being element idx+1.  Every operation of the  *)
(* store is an operator on these values, written after its Rust body, and  *)
(* an action that applies it to an argument drawn from a small set, the    *)
(* invalid arguments included.  A Rust panic ends the process: the action  *)
(* sets panicked and nothing is enabled afterwards.                        *)
(***************************************************************************)
EXTENDS Integers, Sequences, FiniteSets, TLC

VARIABLES
    width,      \* ImageSequence.width  (u8, in units of 8 pixels)
    height,     \* ImageSequence.height (u8, in units of 8 pixels)
    bitmaps,    \* ImageSequence.bitmaps
    panicked,   \* the last call panicked (the process is gone)
    last,       \* the last call: its name, arguments, result and the bitmaps before it
    cursor,     \* MainWindow.current_frame, 1-based (slide has a current_frame of its own)
    play        \* MainWindow.play

vars == <<width, height, bitmaps, panicked, last, cursor, play>>

---------------------------------------------------------------------------
(* Bounds of the model.                                                    *)

\* add_frame, insert_frame, duplicate_frame and the image import are called
\* only while the store holds fewer frames than this, and slide only on a
\* store of at most this many frames.
MaxFrames == 3

\* The painter lights a pixel only while the store holds fewer lit pixels.
MaxLit == 1

\* The dimensions (width, height), in units, a store is constructed with.
Dims == {<<1, 1>>, <<2, 1>>, <<1, 2>>}

\* The bytes an imported two-tone image repeats, row after row.
ImportBytes == {<<24, 128, 129>>}

---------------------------------------------------------------------------
(* Values                                                                  *)

Directions == {"Top", "Left", "Bottom", "Right"}

Animations == {"SlideIn", "SlideOut"}

\* Option<T>
None == [some |-> FALSE, val |-> FALSE]

Some(v) == [some |-> TRUE, val |-> v]

\* u8 arithmetic of a release build (a debug build panics where this wraps;
\* neither happens for units in 1..8)
U8(n) == n % 256

\* A Vec whose elements a function on 1..n gives: the same value, held as a
\* sequence
Vec(f) == <<>> \o f

\* vec![false; usize::from(width) * 8 * usize::from(height) * 8]
BlankFrame(w, h) == Vec([k \in 1..(w * 8 * h * 8) |-> FALSE])

\* ImageSequence::new
new(w, h) == <<BlankFrame(w, h)>>

\* get_frame_count
get_frame_count(b) == Len(b)

\* get_dimensions_pixels
get_dimensions_pixels(w, h) == <<w * 8, h * 8>>

WidthPx == get_dimensions_pixels(width, height)[1]

HeightPx == get_dimensions_pixels(width, height)[2]

---------------------------------------------------------------------------
(* Vec<T>: insert, remove and swap, with the index conditions under which  *)
(* the standard library panics.                                            *)

VecInsertPanics(s, i) == i > Len(s)

VecInsert(s, i, e) == SubSeq(s, 1, i) \o <<e>> \o SubSeq(s, i + 1, Len(s))

VecRemovePanics(s, i) == i >= Len(s)

\* Variant: the last element removed, whatever the index
VecRemove_last(s, i) == SubSeq(s, 1, Len(s) - 1)

VecRemove(s, i) == SubSeq(s, 1, i) \o SubSeq(s, i + 2, Len(s))

VecSwapPanics(s, i, j) == i >= Len(s) \/ j >= Len(s)

VecSwap(s, i, j) == [s EXCEPT ![i + 1] = s[j + 1], ![j + 1] = s[i + 1]]

---------------------------------------------------------------------------
(* Pixel access                                                            *)

\* Variant: the flat index taken column by column
get_by_column(b, w, h, x, y, idx) ==
    LET width_pixels == get_dimensions_pixels(w, h)[1]
        height_pixels == get_dimensions_pixels(w, h)[2]
    IN  IF x \in 0..(width_pixels - 1) /\ y \in 0..(height_pixels - 1)
        THEN IF idx >= Len(b) THEN None
             ELSE IF x * height_pixels + y >= Len(b[idx + 1]) THEN None
             ELSE Some(b[idx + 1][x * height_pixels + y + 1])
        ELSE None

\* ImageSequence::get
get(b, w, h, x, y, idx) ==
    LET width_pixels == get_dimensions_pixels(w, h)[1]
        height_pixels == get_dimensions_pixels(w, h)[2]
    IN  IF x \in 0..(width_pixels - 1) /\ y \in 0..(height_pixels - 1)
        THEN IF idx >= Len(b) THEN None
             ELSE IF y * width_pixels + x >= Len(b[idx + 1]) THEN None
             ELSE Some(b[idx + 1][y * width_pixels + x + 1])
        ELSE None

\* ImageSequence::get_mut: the place the returned reference points at,
\* <<frame index, flat index>>, or None
get_mut(b, w, h, x, y, idx) ==
    LET width_pixels == get_dimensions_pixels(w, h)[1]
        height_pixels == get_dimensions_pixels(w, h)[2]
    IN  IF x \in 0..(width_pixels - 1) /\ y \in 0..(height_pixels - 1)
        THEN IF idx >= Len(b) THEN None
             ELSE IF y * width_pixels + x >= Len(b[idx + 1]) THEN None
             ELSE Some(<<idx, y * width_pixels + x>>)
        ELSE None

\* *reference = value, for a reference get_mut returned
WriteAt(b, place, value) == [b EXCEPT ![place[1] + 1][place[2] + 1] = value]

\* Index<[usize; 3]>: get(..).unwrap()
IndexPanics(b, w, h, x, y, idx) == ~get(b, w, h, x, y, idx).some

\* IndexMut<[usize; 3]>: *get_mut(..).unwrap() = value
IndexMutSet(b, w, h, x, y, idx, value) ==
    WriteAt(b, get_mut(b, w, h, x, y, idx).val, value)

\* ImageSequence::get_frame
get_frame(b, idx) == IF idx >= Len(b) THEN None ELSE Some(b[idx + 1])

---------------------------------------------------------------------------
(* Frame lifecycle                                                         *)

\* ImageSequence::add_frame
add_frame(b, w, h) == Append(b, BlankFrame(w, h))

\* ImageSequence::insert_frame
insert_frame_panics(b, idx) == VecInsertPanics(b, idx)

\* Variant: the new frame is one row of pixels
insert_frame_one_row(b, w, h, idx) ==
    VecInsert(b, idx, Vec([k \in 1..(w * 8) |-> FALSE]))

insert_frame(b, w, h, idx) == VecInsert(b, idx, BlankFrame(w, h))

\* ImageSequence::duplicate_frame: self.bitmaps[idx] is evaluated first
duplicate_frame_panics(b, idx) == idx >= Len(b) \/ VecInsertPanics(b, idx + 1)

\* Variant: the copy put at the end of the sequence
duplicate_frame_at_end(b, idx) == VecInsert(b, Len(b), b[idx + 1])

duplicate_frame(b, idx) == VecInsert(b, idx + 1, b[idx + 1])

\* ImageSequence::move_up
move_up_panics(b, idx) == idx # 0 /\ VecSwapPanics(b, idx, idx - 1)

\* Variant: success reported at the boundary too
move_up_ret_always(b, idx) == TRUE

move_up_ret(b, idx) == idx # 0

move_up(b, idx) == IF idx # 0 THEN VecSwap(b, idx, idx - 1) ELSE b

\* ImageSequence::move_down: self.bitmaps.len() - 1 on an empty Vec
\* overflows (a debug build panics there; a release build wraps to
\* usize::MAX and the swap panics on the index)
move_down_panics(b, idx) ==
    \/ Len(b) = 0
    \/ idx # Len(b) - 1 /\ VecSwapPanics(b, idx, idx + 1)

move_down_ret(b, idx) == idx # Len(b) - 1

move_down(b, idx) == IF idx # Len(b) - 1 THEN VecSwap(b, idx, idx + 1) ELSE b

\* ImageSequence::delete_frame
delete_frame_panics(b, idx) == VecRemovePanics(b, idx)

delete_frame(b, idx) == VecRemove(b, idx)

\* ImageSequence::clear_frame
clear_frame_panics(b, idx) == idx >= Len(b)

\* Variant: the frame left as it is
clear_frame_kept(b, idx) == b

clear_frame(b, idx) ==
    [b EXCEPT ![idx + 1] = Vec([k \in 1..Len(b[idx + 1]) |-> FALSE])]

---------------------------------------------------------------------------
(* Byte packing and text                                                   *)

Bit(bit) == IF bit THEN 1 ELSE 0

\* bits.iter().fold(0, |byte, &bit| byte << 1 | bit as u8), in u8: the
\* shifted byte is even, so or-ing the bit in adds it
RECURSIVE FoldBits(_, _, _)
FoldBits(bits, k, byte) ==
    IF k > Len(bits) THEN byte
    ELSE FoldBits(bits, k + 1, U8(byte * 2) + Bit(bits[k]))

\* Variant: the first bit taken as the least significant
bits_to_byte_lsb_first(bits) ==
    FoldBits([k \in 1..Len(bits) |-> bits[Len(bits) + 1 - k]], 1, 0)

bits_to_byte(bits) == FoldBits(bits, 1, 0)

\* slice::chunks_exact(8): the whole chunks, a remainder is dropped
chunks_exact8(frame) ==
    Vec([c \in 1..(Len(frame) \div 8) |-> SubSeq(frame, 8 * (c - 1) + 1, 8 * c)])

\* ImageSequence::get_bytes
get_bytes_panics(b, idx) == idx >= Len(b)

get_bytes(b, idx) ==
    LET chunks == chunks_exact8(b[idx + 1])
    IN  Vec([c \in 1..Len(chunks) |-> bits_to_byte(chunks[c])])

HexDigits ==
    <<"0", "1", "2", "3", "4", "5", "6", "7",
      "8", "9", "A", "B", "C", "D", "E", "F">>

\* format!("{current:#04X}")
FormatHex(byte) ==
    IF byte < 16 THEN "0x0" \o HexDigits[byte + 1]
    ELSE "0x" \o HexDigits[(byte \div 16) + 1] \o HexDigits[(byte % 16) + 1]

RECURSIVE FoldHex(_, _, _)
FoldHex(bytes, k, previous) ==
    IF k > Len(bytes) THEN previous
    ELSE FoldHex(bytes, k + 1,
                 IF k = 1 THEN FormatHex(bytes[k])
                 ELSE previous \o ", " \o FormatHex(bytes[k]))

\* ImageSequence::get_frame_as_string
get_frame_as_string_panics(b, idx) == get_bytes_panics(b, idx)

get_frame_as_string(b, idx) == "{" \o FoldHex(get_bytes(b, idx), 1, "") \o "}"

---------------------------------------------------------------------------
(* Slide generator                                                         *)

\* Variant: eight bits
I16_narrow(n) == ((n + 128) % 256) - 128

\* i16 arithmetic of a release build
I16(n) == ((n + 32768) % 65536) - 32768

\* IVec::new
IVecNew(x, y) == [x |-> x, y |-> y]

\* impl Mul<i16> for IVec
IVecMul(v, rhs) == [x |-> I16(v.x * rhs), y |-> I16(v.y * rhs)]

\* impl Add<IVec> for IVec
IVecAdd(a, c) == [x |-> I16(a.x + c.x), y |-> I16(a.y + c.y)]

\* Variant: the axis of the other pair of directions
slide_dimension_crossed(w, h, direction) ==
    U8((IF direction \in {"Top", "Bottom"} THEN w ELSE h) * 8)

\* let dimension = match direction { .. } * 8;   (u8)
slide_dimension(w, h, direction) ==
    U8((IF direction \in {"Top", "Bottom"} THEN h ELSE w) * 8)

\* Variant: Left and Right exchanged
slide_vector_mirrored(direction) ==
    CASE direction = "Top" -> IVecNew(0, -1)
      [] direction = "Left" -> IVecNew(1, 0)
      [] direction = "Bottom" -> IVecNew(0, 1)
      [] direction = "Right" -> IVecNew(-1, 0)

\* let vector = match direction { .. };
slide_vector(direction) ==
    CASE direction = "Top" -> IVecNew(0, -1)
      [] direction = "Left" -> IVecNew(-1, 0)
      [] direction = "Bottom" -> IVecNew(0, 1)
      [] direction = "Right" -> IVecNew(1, 0)

\* Variant: the shifts of SlideIn and SlideOut exchanged
slide_shift_exchanged(animation, dimension, i) ==
    IF animation = "SlideOut" THEN I16(I16(dimension - i) - 1) ELSE i

\* match animation { SlideIn => dimension - i - 1, SlideOut => i }   (i16)
slide_shift(animation, dimension, i) ==
    IF animation = "SlideIn" THEN I16(I16(dimension - i) - 1) ELSE i

\* A store on its way through slide: ok is FALSE once an unwrap or an
\* index has panicked, and b is then the store as the panic left it.
Running(b) == [b |-> b, ok |-> TRUE]

Aborted(b) == [b |-> b, ok |-> FALSE]

\* (0..dimension - 1).for_each(|_| self.duplicate_frame(idx))
RECURSIVE slide_duplicate(_, _, _)
slide_duplicate(st, idx, n) ==
    IF n = 0 \/ ~st.ok THEN st
    ELSE IF duplicate_frame_panics(st.b, idx) THEN Aborted(st.b)
    ELSE CHOOSE r \in {slide_duplicate(st2, idx, n2) :
                          st2 \in {Running(duplicate_frame(st.b, idx))},
                          n2 \in {n - 1}} : TRUE

\* width * height, the end of the range of flat indexes   (i16)
slide_pixel_count(w, h) == I16(I16(w * 8) * I16(h * 8))

\* current_pixel.y * width + current_pixel.x   (i16)
slide_source(w, current_pixel) ==
    I16(I16(current_pixel.y * I16(w * 8)) + current_pixel.x)

\* The body of the inner for_each, for the pixel of flat index p:
\*   let IVec { x: new_x, y: new_y } = current_pixel + scaled_vector;
\*   if in range { self[[new_x, new_y, frame_number]] = current_frame[..] }
\* frame_number is the same for all pixels of an offset: st.b is that one
\* frame of the store, taken as a store of its own.
slide_pixel(st, w, h, p, scaled_vector, current_frame) ==
    LET wpx == I16(w * 8)
        hpx == I16(h * 8)
        current_pixel == IVecNew(p % wpx, p \div wpx)
        moved == IVecAdd(current_pixel, scaled_vector)
        source == slide_source(w, current_pixel)
    IN  IF ~st.ok THEN st
        ELSE IF moved.x \in 0..(wpx - 1) /\ moved.y \in 0..(hpx - 1)
        THEN IF \/ source < 0
                \/ source >= Len(current_frame)
                \/ IndexPanics(st.b, w, h, moved.x, moved.y, 0)
             THEN Aborted(st.b)
             ELSE Running(IndexMutSet(st.b, w, h, moved.x, moved.y, 0,
                                      current_frame[source + 1]))
        ELSE st

\* The inner for_each over the pixels p, p + 1, .. below end, in this order
RECURSIVE slide_pixels(_, _, _, _, _, _, _)
slide_pixels(st, w, h, p, end, scaled_vector, current_frame) ==
    IF p >= end THEN st
    ELSE slide_pixels(slide_pixel(st, w, h, p, scaled_vector, current_frame),
                      w, h, p + 1, end, scaled_vector, current_frame)

\* (0..width * height).map(..).for_each(..): the pixels in ascending flat
\* index, taken here a row of width pixels at a time
RECURSIVE slide_rows(_, _, _, _, _, _)
slide_rows(st, w, h, p, scaled_vector, current_frame) ==
    IF p >= slide_pixel_count(w, h) \/ ~st.ok THEN st
    ELSE CHOOSE r \in {slide_rows(st2, w2, h2, p2, scaled_vector2, current_frame2) :
                          st2 \in {slide_pixels(st, w, h, p, p + I16(w * 8),
                                                scaled_vector, current_frame)},
                          w2 \in {w}, h2 \in {h}, p2 \in {p + I16(w * 8)},
                          scaled_vector2 \in {scaled_vector},
                          current_frame2 \in {current_frame}} : TRUE

\* Variant: the pixels are read from the frame at idx as the store has it
\* when the offset is processed, not from the snapshot
slide_offset_live(st, w, h, idx, direction, animation, i, current_frame) ==
    LET dimension == slide_dimension(w, h, direction)
        frame_number == idx + i
    IN  IF clear_frame_panics(st.b, frame_number) THEN Aborted(st.b)
        ELSE CHOOSE r \in
                {[b |-> [st.b EXCEPT ![frame_number + 1] = written.b[1]],
                  ok |-> written.ok] :
                    written \in
                        {slide_rows(Running(<<clear_frame(st.b, frame_number)
                                                  [frame_number + 1]>>),
                                    w, h, 0,
                                    IVecMul(slide_vector(direction),
                                            slide_shift(animation, dimension, i)),
                                    clear_frame(st.b, frame_number)[idx + 1])}} : TRUE

\* The body of the outer for_each, for the offset i
slide_offset(st, w, h, idx, direction, animation, i, current_frame) ==
    LET dimension == slide_dimension(w, h, direction)
        frame_number == idx + i
    IN  IF clear_frame_panics(st.b, frame_number) THEN Aborted(st.b)
        ELSE CHOOSE r \in
                {[b |-> [st.b EXCEPT ![frame_number + 1] = written.b[1]],
                  ok |-> written.ok] :
                    written \in
                        {slide_rows(Running(<<clear_frame(st.b, frame_number)
                                                  [frame_number + 1]>>),
                                    w, h, 0,
                                    IVecMul(slide_vector(direction),
                                            slide_shift(animation, dimension, i)),
                                    current_frame)}} : TRUE

\* The outer for_each over the offsets, taken in the order given
RECURSIVE slide_offsets(_, _, _, _, _, _, _, _, _)
slide_offsets(st, w, h, idx, direction, animation, order, k, current_frame) ==
    IF k > Len(order) \/ ~st.ok THEN st
    ELSE CHOOSE r \in {slide_offsets(st2, w, h, idx, direction, animation, order,
                                     k2, current_frame) :
                          st2 \in {slide_offset(st, w, h, idx, direction, animation,
                                                order[k], current_frame)},
                          k2 \in {k + 1}} : TRUE

\* (0..dimension).rev()
slide_order(dimension) == Vec([k \in 1..dimension |-> dimension - k])

\* ImageSequence::slide with the offsets processed in the order given
slide_in_order(b, w, h, idx, direction, animation, order) ==
    CHOOSE r \in
        {IF ~expanded.ok THEN expanded
         ELSE IF ~get_frame(expanded.b, idx).some THEN Aborted(expanded.b)
         ELSE slide_offsets(expanded, w, h, idx, direction, animation, order, 1,
                            get_frame(expanded.b, idx).val) :
            expanded \in {slide_duplicate(Running(b), idx,
                                          slide_dimension(w, h, direction) - 1)}} : TRUE

\* ImageSequence::slide
slide(b, w, h, idx, direction, animation) ==
    slide_in_order(b, w, h, idx, direction, animation,
                   slide_order(slide_dimension(w, h, direction)))

---------------------------------------------------------------------------
(* Image import (main.rs, import_image): the decoder hands over one        *)
(* two-tone pixel per pixel of the store, row-major.                       *)

\* The image of n bytes that repeats a pattern
ImageBytes(pattern, n) ==
    Vec([k \in 1..n |-> pattern[((k - 1) % Len(pattern)) + 1]])

\* Its pixels: each byte unpacked most significant bit first; the import
\* takes color != 0 as lit
ImagePixels(bytes) ==
    Vec([k \in 1..(8 * Len(bytes)) |->
            (bytes[((k - 1) \div 8) + 1] \div (2 ^ (7 - ((k - 1) % 8)))) % 2 # 0])

\* gray_image.iter().zip(iter_pixels_mut(idx).unwrap()).for_each(..): zip
\* stops at the shorter of the two
import_pixels(b, idx, pixels) ==
    [b EXCEPT ![idx + 1] =
        Vec([k \in 1..Len(b[idx + 1]) |->
                IF k <= Len(pixels) THEN pixels[k] ELSE b[idx + 1][k]])]

\* insert_frame(current_frame - 1), then the pixels written into it
import_image_panics(b, idx) == insert_frame_panics(b, idx)

import_image(b, w, h, idx, pixels) ==
    import_pixels(insert_frame(b, w, h, idx), idx, pixels)

---------------------------------------------------------------------------
(* The state machine                                                       *)

\* Lit pixels of the whole store
LitPixels(b) == {p \in UNION {{f} \X DOMAIN b[f] : f \in DOMAIN b} : b[p[1]][p[2]]}

LitCount(b) == Cardinality(LitPixels(b))

\* Frame indexes a call is made with: the valid ones, frame_count, and one more
IdxArgs == 0..(Len(bitmaps) + 1)

\* Pixels the painter is clicked at (show_painter clamps to the canvas)
PaintPoints == {<<1, 2>>}

\* Coordinates get_mut is called with, in and out of range
WritePoints == PaintPoints \cup {<<WidthPx, 0>>, <<0, HeightPx>>}

\* Coordinates get is called with, in and out of range
ProbePoints == WritePoints \cup {<<2, 1>>, <<WidthPx - 1, HeightPx - 1>>}

NoArgs ==
    [idx |-> 0, x |-> 0, y |-> 0, direction |-> "-", animation |-> "-", value |-> FALSE]

Call(op, args) == [op |-> op, args |-> args]

\* The call returned ret and left the store as b
Returns(call, ret, b) ==
    /\ bitmaps' = b
    /\ panicked' = FALSE
    /\ last' = [op |-> call.op, args |-> call.args, ret |-> Some(ret), pre |-> bitmaps]
    /\ UNCHANGED <<width, height, cursor, play>>

\* Variant: the panic takes the frames with it
Panics_emptied(call, b) ==
    /\ bitmaps' = <<>>
    /\ panicked' = TRUE
    /\ last' = [op |-> call.op, args |-> call.args, ret |-> None, pre |-> bitmaps]
    /\ UNCHANGED <<width, height, cursor, play>>

\* The call panicked and left the store as b
Panics(call, b) ==
    /\ bitmaps' = b
    /\ panicked' = TRUE
    /\ last' = [op |-> call.op, args |-> call.args, ret |-> None, pre |-> bitmaps]
    /\ UNCHANGED <<width, height, cursor, play>>

Init ==
    /\ \E d \in Dims : width = d[1] /\ height = d[2] /\ bitmaps = new(d[1], d[2])
    /\ panicked = FALSE
    /\ last = [op |-> "new", args |-> NoArgs, ret |-> Some(TRUE), pre |-> <<>>]
    /\ cursor = 1
    /\ play = FALSE

Get ==
    \E pt \in ProbePoints, idx \in 0..Len(bitmaps) :
        Returns(Call("get", [NoArgs EXCEPT !.x = pt[1], !.y = pt[2], !.idx = idx]),
                get(bitmaps, width, height, pt[1], pt[2], idx), bitmaps)

\* get_mut, and the caller writing through the reference when there is one
GetMut ==
    \E value \in {v \in BOOLEAN : v => LitCount(bitmaps) < MaxLit} :
        \E pt \in WritePoints, idx \in 0..Len(bitmaps) :
            LET r == get_mut(bitmaps, width, height, pt[1], pt[2], idx)
            IN  Returns(Call("get_mut", [NoArgs EXCEPT !.x = pt[1], !.y = pt[2],
                                                      !.idx = idx, !.value = value]),
                        r.some,
                        IF r.some THEN WriteAt(bitmaps, r.val, value) ELSE bitmaps)

\* self[[x, y, idx]] = value   (the painter)
IndexSet ==
    \E value \in {v \in BOOLEAN : v => LitCount(bitmaps) < MaxLit} :
        \E pt \in PaintPoints, idx \in 0..Len(bitmaps) :
            LET call == Call("index_mut", [NoArgs EXCEPT !.x = pt[1], !.y = pt[2],
                                                         !.idx = idx, !.value = value])
            IN  IF IndexPanics(bitmaps, width, height, pt[1], pt[2], idx)
                THEN Panics(call, bitmaps)
                ELSE Returns(call, TRUE,
                             IndexMutSet(bitmaps, width, height, pt[1], pt[2], idx, value))

AddFrame ==
    /\ Len(bitmaps) < MaxFrames
    /\ Returns(Call("add_frame", NoArgs), TRUE, add_frame(bitmaps, width, height))

InsertFrame ==
    \E idx \in IdxArgs :
        LET call == Call("insert_frame", [NoArgs EXCEPT !.idx = idx])
        IN  /\ Len(bitmaps) < MaxFrames
            /\ IF insert_frame_panics(bitmaps, idx)
               THEN Panics(call, bitmaps)
               ELSE Returns(call, TRUE, insert_frame(bitmaps, width, height, idx))

DuplicateFrame ==
    \E idx \in IdxArgs :
        LET call == Call("duplicate_frame", [NoArgs EXCEPT !.idx = idx])
        IN  /\ Len(bitmaps) < MaxFrames
            /\ IF duplicate_frame_panics(bitmaps, idx)
               THEN Panics(call, bitmaps)
               ELSE Returns(call, TRUE, duplicate_frame(bitmaps, idx))

MoveUp ==
    \E idx \in IdxArgs :
        LET call == Call("move_up", [NoArgs EXCEPT !.idx = idx])
        IN  IF move_up_panics(bitmaps, idx)
            THEN Panics(call, bitmaps)
            ELSE Returns(call, move_up_ret(bitmaps, idx), move_up(bitmaps, idx))

MoveDown ==
    \E idx \in IdxArgs :
        LET call == Call("move_down", [NoArgs EXCEPT !.idx = idx])
        IN  IF move_down_panics(bitmaps, idx)
            THEN Panics(call, bitmaps)
            ELSE Returns(call, move_down_ret(bitmaps, idx), move_down(bitmaps, idx))

DeleteFrame ==
    \E idx \in IdxArgs :
        LET call == Call("delete_frame", [NoArgs EXCEPT !.idx = idx])
        IN  IF delete_frame_panics(bitmaps, idx)
            THEN Panics(call, bitmaps)
            ELSE Returns(call, TRUE, delete_frame(bitmaps, idx))

ClearFrame ==
    \E idx \in IdxArgs :
        LET call == Call("clear_frame", [NoArgs EXCEPT !.idx = idx])
        IN  IF clear_frame_panics(bitmaps, idx)
            THEN Panics(call, bitmaps)
            ELSE Returns(call, TRUE, clear_frame(bitmaps, idx))

GetBytes ==
    \E idx \in IdxArgs :
        LET call == Call("get_bytes", [NoArgs EXCEPT !.idx = idx])
        IN  IF get_bytes_panics(bitmaps, idx)
            THEN Panics(call, bitmaps)
            ELSE Returns(call, get_bytes(bitmaps, idx), bitmaps)

GetFrameAsString ==
    \E idx \in IdxArgs :
        LET call == Call("get_frame_as_string", [NoArgs EXCEPT !.idx = idx])
        IN  IF get_frame_as_string_panics(bitmaps, idx)
            THEN Panics(call, bitmaps)
            ELSE Returns(call, get_frame_as_string(bitmaps, idx), bitmaps)

\* The editor imports at current_frame - 1, an existing frame
ImportImage ==
    \E idx \in 0..(Len(bitmaps) - 1), pattern \in ImportBytes :
        LET bytes == ImageBytes(pattern, width * 8 * height)
            call == Call("import_image", [NoArgs EXCEPT !.idx = idx, !.value = bytes])
        IN  /\ Len(bitmaps) < MaxFrames
            /\ IF import_image_panics(bitmaps, idx)
               THEN Panics(call, bitmaps)
               ELSE Returns(call, TRUE,
                            import_image(bitmaps, width, height, idx, ImagePixels(bytes)))

\* One call of slide
SlideCall(idx, direction, animation) ==
    \E done \in {slide(bitmaps, width, height, idx, direction, animation)} :
        LET call == Call("slide", [NoArgs EXCEPT !.idx = idx, !.direction = direction,
                                                 !.animation = animation])
        IN  IF done.ok THEN Returns(call, TRUE, done.b) ELSE Panics(call, done.b)

\* slide is called on a store of at most MaxFrames frames
Slide ==
    /\ Len(bitmaps) <= MaxFrames
    /\ \E idx \in 0..Len(bitmaps), direction \in Directions, animation \in Animations :
            SlideCall(idx, direction, animation)

\* slide called with an index that is no frame's
SlideOutOfRange ==
    \E idx \in Len(bitmaps)..(Len(bitmaps) + 1),
       direction \in Directions, animation \in Animations :
            SlideCall(idx, direction, animation)

\* A call is made while the process runs
Next ==
    /\ ~panicked
    /\ \/ Get
       \/ GetMut
       \/ IndexSet
       \/ AddFrame
       \/ InsertFrame
       \/ DuplicateFrame
       \/ MoveUp
       \/ MoveDown
       \/ DeleteFrame
       \/ ClearFrame
       \/ GetBytes
       \/ GetFrameAsString
       \/ ImportImage

Spec == Init /\ [][Next]_vars

---------------------------------------------------------------------------
(* Slide generation, taken on its own: the stores it is called on are      *)
(* built from new by the painter, add_frame and the image import.          *)

SlideDims == {<<1, 1>>, <<2, 1>>}

\* The frame contents the stores are drawn from, by number
SlideContents == {0, 1, 2, 3}

\* A frame as the painter or the import leaves it on a fresh store:
\* a single lit pixel in a corner or inside, or the imported image
SlideFrame(w, h, c) ==
    CASE c = 0 -> IndexMutSet(new(w, h), w, h, 0, 0, 0, TRUE)[1]
      [] c = 1 -> IndexMutSet(new(w, h), w, h, w * 8 - 1, h * 8 - 1, 0, TRUE)[1]
      [] c = 2 -> import_pixels(new(w, h), 0,
                                ImagePixels(ImageBytes(<<24, 128, 129>>, w * 8 * h)))[1]
      [] OTHER -> IndexMutSet(new(w, h), w, h, 3, 2, 0, TRUE)[1]

\* The store of n frames whose frame j holds content number (j + r)
SlideStore(w, h, n, r) ==
    Vec([j \in 1..n |-> SlideFrame(w, h, (j - 1 + r) % Cardinality(SlideContents))])

SlideInit ==
    /\ \E d \in SlideDims, n \in 1..MaxFrames, r \in SlideContents :
            /\ width = d[1]
            /\ height = d[2]
            /\ bitmaps = SlideStore(d[1], d[2], n, r)
    /\ panicked = FALSE
    /\ last = [op |-> "new", args |-> NoArgs, ret |-> Some(TRUE), pre |-> <<>>]
    /\ cursor = 1
    /\ play = FALSE

SlideNext == ~panicked /\ Slide

SlideSpec == SlideInit /\ [][SlideNext]_vars

---------------------------------------------------------------------------
(* The operations that take a frame index, called with valid and invalid   *)
(* indexes on the stores slide generation is taken on; slide itself with   *)
(* the invalid ones only (SlideSpec has the valid ones).                   *)

RejectNext ==
    /\ ~panicked
    /\ \/ SlideOutOfRange
       \/ DuplicateFrame
       \/ DeleteFrame
       \/ ClearFrame
       \/ MoveDown
       \/ InsertFrame

RejectSpec == SlideInit /\ [][RejectNext]_vars

---------------------------------------------------------------------------
(* The editor (main.rs, MainWindow): the frame buttons, the painter, the   *)
(* animation menu, playback and the new-file dialog, each acting on the    *)
(* frame under the cursor.                                          *)

\* The dimensions confirmed in the new-file dialog
EditorDims == {<<1, 1>>}

\* The action ran to its end and left the store as b and the cursor at c;
\* of the action, last keeps the name and, of a deletion, the store before
Done(op, b, c) ==
    /\ bitmaps' = b
    /\ cursor' = c
    /\ panicked' = FALSE
    /\ last' = [op |-> op, args |-> NoArgs, ret |-> Some(TRUE),
                pre |-> IF op = "Delete frame" THEN bitmaps ELSE <<>>]

\* The action panicked in a call on the store, which it left as b
Crashed(op, b) ==
    /\ bitmaps' = b
    /\ panicked' = TRUE
    /\ last' = [op |-> op, args |-> NoArgs, ret |-> None, pre |-> <<>>]
    /\ UNCHANGED cursor

\* A freshly created document
EditorInit ==
    /\ \E d \in EditorDims : width = d[1] /\ height = d[2] /\ bitmaps = new(d[1], d[2])
    /\ panicked = FALSE
    /\ last = [op |-> "new", args |-> NoArgs, ret |-> Some(TRUE), pre |-> <<>>]
    /\ cursor = 1
    /\ play = FALSE

\* "Confirm" in the new-file dialog
EditorNewDocument ==
    /\ \E d \in EditorDims :
            /\ width' = d[1]
            /\ height' = d[2]
            /\ Done("New", new(d[1], d[2]), 1)
    /\ UNCHANGED play

\* The playback tick: play is on and a frame time has elapsed; the
\* remainder panics on a count of zero
EditorTick ==
    /\ play
    /\ IF get_frame_count(bitmaps) = 0
       THEN Crashed("Tick", bitmaps)
       ELSE Done("Tick", bitmaps, (cursor % get_frame_count(bitmaps)) + 1)
    /\ UNCHANGED <<width, height, play>>

\* The "Play" / "Stop" button
EditorTogglePlay ==
    /\ play' = ~play
    /\ Done("Play", bitmaps, cursor)
    /\ UNCHANGED <<width, height>>

\* The "Frame:" drag value, clamp_range(1..=frame count)
EditorSetFrame ==
    /\ \E c \in 1..get_frame_count(bitmaps) : Done("Frame", bitmaps, c)
    /\ UNCHANGED <<width, height, play>>

\* "Add frame"
EditorAddFrame ==
    /\ Len(bitmaps) < MaxFrames
    /\ Done("Add frame", add_frame(bitmaps, width, height),
            get_frame_count(add_frame(bitmaps, width, height)))
    /\ UNCHANGED <<width, height, play>>

\* "Insert frame"
EditorInsertFrame ==
    /\ Len(bitmaps) < MaxFrames
    /\ IF insert_frame_panics(bitmaps, cursor - 1)
       THEN Crashed("Insert frame", bitmaps)
       ELSE Done("Insert frame",
                 insert_frame(bitmaps, width, height, cursor - 1), cursor)
    /\ UNCHANGED <<width, height, play>>

\* "Duplicate frame"
EditorDuplicateFrame ==
    /\ Len(bitmaps) < MaxFrames
    /\ IF duplicate_frame_panics(bitmaps, cursor - 1)
       THEN Crashed("Duplicate frame", bitmaps)
       ELSE Done("Duplicate frame",
                 duplicate_frame(bitmaps, cursor - 1), cursor)
    /\ UNCHANGED <<width, height, play>>

\* "Move up": the cursor follows the frame when move_up returned true
EditorMoveUp ==
    /\ IF move_up_panics(bitmaps, cursor - 1)
       THEN Crashed("Move up", bitmaps)
       ELSE Done("Move up", move_up(bitmaps, cursor - 1),
                 IF move_up_ret(bitmaps, cursor - 1)
                 THEN cursor - 1 ELSE cursor)
    /\ UNCHANGED <<width, height, play>>

\* "Move down": the cursor follows the frame when move_down returned true
EditorMoveDown ==
    /\ IF move_down_panics(bitmaps, cursor - 1)
       THEN Crashed("Move down", bitmaps)
       ELSE Done("Move down", move_down(bitmaps, cursor - 1),
                 IF move_down_ret(bitmaps, cursor - 1)
                 THEN cursor + 1 ELSE cursor)
    /\ UNCHANGED <<width, height, play>>

\* Variant: nothing added to a store left empty
deleted_store_bare(b, w, h, c) == delete_frame(b, c - 1)

\* The store and the cursor "Delete frame" leaves: a blank frame is added
\* to a store left empty, and the cursor steps back from behind the end
deleted_store(b, w, h, c) ==
    IF get_frame_count(delete_frame(b, c - 1)) = 0
    THEN add_frame(delete_frame(b, c - 1), w, h)
    ELSE delete_frame(b, c - 1)

\* Variant: the cursor stays where it is
deleted_cursor_stays(b, c) == c

deleted_cursor(b, c) ==
    IF get_frame_count(delete_frame(b, c - 1)) = 0 THEN c
    ELSE IF get_frame_count(delete_frame(b, c - 1)) = c - 1 THEN c - 1
    ELSE c

\* "Delete frame"
EditorDeleteFrame ==
    /\ IF delete_frame_panics(bitmaps, cursor - 1)
       THEN Crashed("Delete frame", bitmaps)
       ELSE Done("Delete frame",
                 deleted_store(bitmaps, width, height, cursor),
                 deleted_cursor(bitmaps, cursor))
    /\ UNCHANGED <<width, height, play>>

\* "Clear frame"
EditorClearFrame ==
    /\ IF clear_frame_panics(bitmaps, cursor - 1)
       THEN Crashed("Clear frame", bitmaps)
       ELSE Done("Clear frame", clear_frame(bitmaps, cursor - 1), cursor)
    /\ UNCHANGED <<width, height, play>>

\* The painter: a click or drag with the primary (true) or the secondary
\* (false) button
EditorPaint ==
    /\ \E value \in {v \in BOOLEAN : v => LitCount(bitmaps) < MaxLit} :
        \E pt \in PaintPoints :
            IF IndexPanics(bitmaps, width, height, pt[1], pt[2], cursor - 1)
            THEN Crashed("Paint", bitmaps)
            ELSE Done("Paint",
                      IndexMutSet(bitmaps, width, height, pt[1], pt[2],
                                  cursor - 1, value),
                      cursor)
    /\ UNCHANGED <<width, height, play>>

\* The code panel showing the current frame
EditorShowCode ==
    /\ IF get_frame_as_string_panics(bitmaps, cursor - 1)
       THEN Crashed("Code", bitmaps)
       ELSE Done("Code", bitmaps, cursor)
    /\ UNCHANGED <<width, height, play>>

\* An entry of the animation menu, chosen while the store holds at most
\* MaxFrames frames, all of them blank (SlideSpec has the others)
EditorSlide ==
    /\ Len(bitmaps) <= MaxFrames
    /\ LitPixels(bitmaps) = {}
    /\ \E direction \in Directions, animation \in Animations :
        \E done \in {slide(bitmaps, width, height, cursor - 1,
                           direction, animation)} :
            IF done.ok THEN Done("Slide", done.b, cursor) ELSE Crashed("Slide", done.b)
    /\ UNCHANGED <<width, height, play>>

EditorNext ==
    /\ ~panicked
    /\ \/ EditorNewDocument
       \/ EditorTick
       \/ EditorTogglePlay
       \/ EditorSetFrame
       \/ EditorAddFrame
       \/ EditorInsertFrame
       \/ EditorDuplicateFrame
       \/ EditorMoveUp
       \/ EditorMoveDown
       \/ EditorDeleteFrame
       \/ EditorClearFrame
       \/ EditorPaint
       \/ EditorShowCode
       \/ EditorSlide

EditorSpec == EditorInit /\ [][EditorNext]_vars

---------------------------------------------------------------------------
(* The arithmetic of slide, taken on its own for every store the new-file  *)
(* dialog can construct: the axis length, the shift of an offset and the   *)
(* scaled vector, without the copying of the pixels.                       *)

ArithDims == (1..8) \X (1..8)

ArithInit ==
    /\ \E d \in ArithDims : width = d[1] /\ height = d[2] /\ bitmaps = new(d[1], d[2])
    /\ panicked = FALSE
    /\ last = [op |-> "new", args |-> NoArgs, ret |-> Some(TRUE), pre |-> <<>>]
    /\ cursor = 1
    /\ play = FALSE

\* dimension, the shift and scaled_vector of the offset i
slide_arithmetic(w, h, direction, animation, i) ==
    [dimension |-> slide_dimension(w, h, direction),
     shift |-> slide_shift(animation, slide_dimension(w, h, direction), i),
     scaled_vector |->
        IVecMul(slide_vector(direction),
                slide_shift(animation, slide_dimension(w, h, direction), i))]

\* The values slide computes for one offset on the constructed store
SlideArithmetic ==
    /\ last.op = "new"
    /\ \E direction \in Directions, animation \in Animations :
        \E i \in 0..(slide_dimension(width, height, direction) - 1) :
            /\ last' = [op |-> "slide arithmetic",
                        args |-> [NoArgs EXCEPT !.idx = i, !.direction = direction,
                                                !.animation = animation],
                        ret |-> Some(slide_arithmetic(width, height, direction,
                                                      animation, i)),
                        pre |-> <<>>]
            /\ UNCHANGED <<width, height, bitmaps, panicked, cursor, play>>

ArithNext == SlideArithmetic

ArithSpec == ArithInit /\ [][ArithNext]_vars

---------------------------------------------------------------------------
(* Vocabulary of the properties                                            *)

\* The pixels lit in a frame of a store w units wide, as <<x, y>>
Lit(frame, w) ==
    {<<(k - 1) % (w * 8), (k - 1) \div (w * 8)>> : k \in {j \in DOMAIN frame : frame[j]}}

\* The pixels of the canvas
Canvas(w, h) == (0..(w * 8 - 1)) \X (0..(h * 8 - 1))

AxisLength(w, h, direction) == IF direction \in {"Top", "Bottom"} THEN h * 8 ELSE w * 8

StepVector(direction) ==
    CASE direction = "Top" -> <<0, -1>>
      [] direction = "Bottom" -> <<0, 1>>
      [] direction = "Left" -> <<-1, 0>>
      [] direction = "Right" -> <<1, 0>>

Shift(animation, axis, i) == IF animation = "SlideIn" THEN axis - i - 1 ELSE i

\* The pixels lit, each moved by v * shift, those that leave the canvas dropped
Translated(lit, v, shift, w, h) ==
    {<<p[1] + v[1] * shift, p[2] + v[2] * shift>> : p \in lit} \cap Canvas(w, h)

\* The last call was a slide that returned
Slid == last.op = "slide" /\ last.ret.some

\* The frame slide was called on, as it was before the call
SlideSource == last.pre[last.args.idx + 1]

\* The frame at position pos (0-based) of the store
FrameAt(pos) == bitmaps[pos + 1]

---------------------------------------------------------------------------
(* Slide generation                                                        *)

\* C1: after slide(origin, direction, kind), for every offset i below the
\* axis length, the frame at origin + i has lit exactly the pixels
\* (x, y) + step_vector * shift of the pixels (x, y) lit in the source
\* frame before the call, with shift = axis_length - i - 1 for SlideIn and i
\* for SlideOut; pixels translated off the canvas are dropped, none wraps.
C1_SlideTranslates ==
    Slid =>
        LET axis == AxisLength(width, height, last.args.direction)
        IN  \A i \in 0..(axis - 1) :
                /\ last.args.idx + i < Len(bitmaps)
                /\ Lit(FrameAt(last.args.idx + i), width) =
                       Translated(Lit(SlideSource, width),
                                  StepVector(last.args.direction),
                                  Shift(last.args.animation, axis, i),
                                  width, height)

\* A slide to the left of a frame of several lit pixels on the wide store,
\* with an output frame that lost some of them over the edge and kept others
C1_Witness ==
    /\ Slid
    /\ width = 2
    /\ last.args.direction = "Left"
    /\ \E i \in 0..15 :
          /\ Lit(FrameAt(last.args.idx + i), width) # {}
          /\ Cardinality(Lit(FrameAt(last.args.idx + i), width))
                 < Cardinality(Lit(SlideSource, width))

\* The frame has one lit pixel only
SinglePixel(frame, w) == Cardinality(Lit(frame, w)) = 1

ThePixel(frame, w) == CHOOSE p \in Lit(frame, w) : TRUE

\* slide(origin, Right, SlideIn) of a frame with a single lit pixel has
\* produced width_px frames, the last of them the source, and the frame at
\* each offset i shows the pixel at (px + sign * (width_px - 1 - i), py) if
\* that is on the canvas and nothing otherwise
RightSlideInShows(sign) ==
    (/\ Slid
     /\ last.args.direction = "Right"
     /\ last.args.animation = "SlideIn"
     /\ SinglePixel(SlideSource, width)) =>
        LET width_px == width * 8
            px == ThePixel(SlideSource, width)[1]
            py == ThePixel(SlideSource, width)[2]
        IN  /\ Len(bitmaps) = Len(last.pre) + width_px - 1
            /\ FrameAt(last.args.idx + width_px - 1) = SlideSource
            /\ \A i \in 0..(width_px - 1) :
                   Lit(FrameAt(last.args.idx + i), width) =
                       {<<px + sign * (width_px - 1 - i), py>>} \cap Canvas(width, height)

\* C2, as amended: for a source frame with a single lit pixel at (px, py),
\* slide(origin, Right, SlideIn) produces width_px frames; the frame at
\* offset width_px - 1 equals the source, the frame at offset 0 shows the
\* pixel shifted right by width_px - 1 (nothing if that is off the canvas),
\* and at every offset i the pixel, if on the canvas, is at
\* (px + (width_px - 1 - i), py).
C2_RightSlideInShiftsRight == RightSlideInShows(1)

\* C2, as stated: the same with the pixel shifted left, at
\* (px - (width_px - 1 - i), py).
C2_RightSlideInShiftsLeft == RightSlideInShows(-1)

\* A Right/SlideIn slide of the frame whose single lit pixel is (0, 0): the
\* frame at offset 0 shows it at the right edge
C2_Witness ==
    /\ Slid
    /\ last.args.direction = "Right"
    /\ last.args.animation = "SlideIn"
    /\ Lit(SlideSource, width) = {<<0, 0>>}
    /\ Lit(FrameAt(last.args.idx), width) = {<<width * 8 - 1, 0>>}

\* slide(0, Right, SlideOut) has returned on the 1x1 store whose single
\* frame had (0, 0) lit and nothing else
SlidOutRightFromCorner ==
    /\ Slid
    /\ width = 1
    /\ height = 1
    /\ Len(last.pre) = 1
    /\ Lit(last.pre[1], 1) = {<<0, 0>>}
    /\ last.args.idx = 0
    /\ last.args.direction = "Right"
    /\ last.args.animation = "SlideOut"

\* 8 frames; frame 0 has (0, 0) lit; frame 1 has (1, 0) lit and (0, 0) unlit
EightFramesFirstTwo ==
    /\ get_frame_count(bitmaps) = 8
    /\ get(bitmaps, width, height, 0, 0, 0) = Some(TRUE)
    /\ get(bitmaps, width, height, 1, 0, 1) = Some(TRUE)
    /\ get(bitmaps, width, height, 0, 0, 1) = Some(FALSE)

\* C3, as amended: on a 1x1 store holding a single frame whose only lit
\* pixel is (0, 0), slide(0, Right, SlideOut) leaves exactly 8 frames; frame
\* 0 has (0, 0) lit; frame 1 has (1, 0) lit and (0, 0) unlit; frame 7 has
\* (7, 0) lit and no other pixel.
C3_CornerReachesRightEdge ==
    SlidOutRightFromCorner =>
        EightFramesFirstTwo /\ Lit(FrameAt(7), 1) = {<<7, 0>>}

\* C3, as stated: the same, with frame 7 holding no lit pixel at all.
C3_CornerLeavesCanvas ==
    SlidOutRightFromCorner =>
        EightFramesFirstTwo /\ Lit(FrameAt(7), 1) = {}

C3_Witness == SlidOutRightFromCorner /\ get(bitmaps, width, height, 7, 0, 7) = Some(TRUE)

\* C4: slide(origin, direction, kind) on a store of n frames with origin < n
\* leaves n + axis_length - 1 frames, axis_length being height_px for
\* Top/Bottom and width_px for Left/Right and at least 8; every frame before
\* origin is unchanged, and every frame that was at a position j > origin is
\* unchanged at position j + axis_length - 1.
C4_SlideFrameEffect ==
    (last.op = "slide" /\ last.args.idx < Len(last.pre)) =>
        LET axis == AxisLength(width, height, last.args.direction)
            n == Len(last.pre)
        IN  /\ last.ret.some
            /\ axis >= 8
            /\ Len(bitmaps) = n + axis - 1
            /\ \A j \in 0..(last.args.idx - 1) : FrameAt(j) = last.pre[j + 1]
            /\ \A j \in (last.args.idx + 1)..(n - 1) :
                   FrameAt(j + axis - 1) = last.pre[j + 1]

\* A slide upwards from the middle of three frames of the wide store, the
\* frames around it not alike
C4_Witness ==
    /\ Slid
    /\ width = 2
    /\ last.args.direction = "Top"
    /\ Len(last.pre) = 3
    /\ last.args.idx = 1
    /\ last.pre[1] # last.pre[3]
    /\ Len(bitmaps) = 10

---------------------------------------------------------------------------
(* Frame lifecycle                                                         *)

\* Every pixel of the frame is off, and the frame has the size of the canvas
AllFalse(frame) ==
    /\ Len(frame) = WidthPx * HeightPx
    /\ \A k \in DOMAIN frame : ~frame[k]

\* Sequence t is sequence s with element e put at position pos (0-based)
\* and the elements from pos on moved one place later
PutAt(s, t, pos) ==
    /\ Len(t) = Len(s) + 1
    /\ \A j \in 0..(pos - 1) : t[j + 1] = s[j + 1]
    /\ \A j \in pos..(Len(s) - 1) : t[j + 2] = s[j + 1]

\* insert_frame(index) with index in [0, frame_count] has put one all-false
\* frame at index and moved the later frames by one
InsertPlaces ==
    (last.op = "insert_frame" /\ last.args.idx <= Len(last.pre)) =>
        /\ ~panicked
        /\ PutAt(last.pre, bitmaps, last.args.idx)
        /\ AllFalse(FrameAt(last.args.idx))

\* delete_frame(index) right after insert_frame(index) gives back the
\* sequence insert_frame was called on
DeleteUndoesInsert ==
    (/\ last.op = "insert_frame"
     /\ ~panicked
     /\ last'.op = "delete_frame"
     /\ last'.args.idx = last.args.idx) =>
        (~panicked' /\ bitmaps' = last.pre)

\* C5: for every store and every index in [0, frame_count], frame_count
\* included, insert_frame(index) places one all-false frame at that index
\* and shifts the later frames by one, and a delete_frame(index) that
\* follows with nothing in between restores the original frame sequence.
C5_InsertDeleteInverse == [][InsertPlaces' /\ DeleteUndoesInsert]_vars

\* insert_frame has put a blank frame between two frames, the first of them
\* not blank
C5_Witness ==
    /\ last.op = "insert_frame"
    /\ ~panicked
    /\ last.args.idx = 1
    /\ Len(last.pre) = 2
    /\ ~AllFalse(last.pre[1])
    /\ AllFalse(FrameAt(1))

\* C6: for every valid index i, duplicate_frame(i) increases frame_count by
\* exactly 1, the frame at i + 1 is pixel-equal to the frame at i, the frame
\* at i is unchanged, the frames before i keep their positions and those
\* after i are one position later, unchanged.
C6_DuplicateFrameEffect ==
    (last.op = "duplicate_frame" /\ last.args.idx < Len(last.pre)) =>
        /\ ~panicked
        /\ get_frame_count(bitmaps) = get_frame_count(last.pre) + 1
        /\ FrameAt(last.args.idx + 1) = FrameAt(last.args.idx)
        /\ FrameAt(last.args.idx) = last.pre[last.args.idx + 1]
        /\ PutAt(last.pre, bitmaps, last.args.idx + 1)

\* duplicate_frame(0) on two frames that differ, the first of them not blank
C6_Witness ==
    /\ last.op = "duplicate_frame"
    /\ ~panicked
    /\ last.args.idx = 0
    /\ Len(last.pre) = 2
    /\ last.pre[1] # last.pre[2]
    /\ ~AllFalse(last.pre[1])
    /\ Len(bitmaps) = 3

\* Sequence t is sequence s with the elements at positions i and j
\* (0-based) exchanged and nothing else changed
Exchanged(s, t, i, j) ==
    /\ Len(t) = Len(s)
    /\ t[i + 1] = s[j + 1]
    /\ t[j + 1] = s[i + 1]
    /\ \A k \in (DOMAIN s) \ {i + 1, j + 1} : t[k] = s[k]

\* move_up(0) and move_down(frame_count - 1) have returned false and left
\* the sequence as it was; a call that returned true has exchanged the frame
\* with its neighbour
MoveEffect ==
    /\ (last.op = "move_up" /\ last.args.idx = 0) =>
            (last.ret = Some(FALSE) /\ bitmaps = last.pre)
    /\ (last.op = "move_down" /\ Len(last.pre) > 0
            /\ last.args.idx = Len(last.pre) - 1) =>
            (last.ret = Some(FALSE) /\ bitmaps = last.pre)
    /\ (last.op = "move_up" /\ last.ret = Some(TRUE)) =>
            Exchanged(last.pre, bitmaps, last.args.idx, last.args.idx - 1)
    /\ (last.op = "move_down" /\ last.ret = Some(TRUE)) =>
            Exchanged(last.pre, bitmaps, last.args.idx, last.args.idx + 1)

\* move_down(i - 1) right after a successful move_up(i), and move_up(i + 1)
\* right after a successful move_down(i), succeed and give back the sequence
\* the first call was made on
MoveUndoesMove ==
    /\ (/\ last.op = "move_up"
        /\ last.ret = Some(TRUE)
        /\ last'.op = "move_down"
        /\ last'.args.idx = last.args.idx - 1) =>
            (last'.ret = Some(TRUE) /\ bitmaps' = last.pre)
    /\ (/\ last.op = "move_down"
        /\ last.ret = Some(TRUE)
        /\ last'.op = "move_up"
        /\ last'.args.idx = last.args.idx + 1) =>
            (last'.ret = Some(TRUE) /\ bitmaps' = last.pre)

\* C7: move_up(i) and move_down(i) are inverses when both succeed (move_up(i)
\* then move_down(i - 1), and move_down(i) then move_up(i + 1), restore the
\* original sequence), each successful call swaps exactly two adjacent
\* frames and returns true, and move_up(0) and move_down(frame_count - 1)
\* return false and leave the whole sequence unmutated.
C7_MoveInverse == [][MoveEffect' /\ MoveUndoesMove]_vars

\* move_up(0) has returned false on a store of two frames that differ
C7_Witness ==
    /\ last.op = "move_up"
    /\ last.args.idx = 0
    /\ last.ret = Some(FALSE)
    /\ Len(bitmaps) = 2
    /\ bitmaps[1] # bitmaps[2]

---------------------------------------------------------------------------
(* Bytes of a frame                                                        *)

\* Bit number n (0 the least significant) of a byte
BitOf(byte, n) == (byte \div (2 ^ n)) % 2

\* C8: for every frame, get_bytes returns width_px * height_px / 8 bytes,
\* bit (7 - j) of byte k being the pixel at row-major flat index 8k + j, the
\* eight pixels of a byte lying in one row; and a frame whose pixels were set
\* by unpacking a byte sequence most significant bit first packs back to
\* that byte sequence.
C8_BytePacking ==
    /\ (last.op = "get_bytes" /\ last.args.idx < Len(last.pre)) =>
            /\ last.ret.some
            /\ Len(last.ret.val) = (WidthPx * HeightPx) \div 8
            /\ \A k \in 0..(Len(last.ret.val) - 1) :
                   /\ (8 * k) \div WidthPx = (8 * k + 7) \div WidthPx
                   /\ \A j \in 0..7 :
                          BitOf(last.ret.val[k + 1], 7 - j) =
                              Bit(FrameAt(last.args.idx)[8 * k + j + 1])
    /\ (last.op = "import_image" /\ ~panicked) =>
            /\ ~get_bytes_panics(bitmaps, last.args.idx)
            /\ get_bytes(bitmaps, last.args.idx) = last.args.value

\* get_bytes has returned the bytes of an imported frame
C8_Witness ==
    /\ last.op = "get_bytes"
    /\ last.ret.some
    /\ \E pattern \in ImportBytes :
          last.ret.val = ImageBytes(pattern, width * 8 * height)

---------------------------------------------------------------------------
(* Checked pixel access                                                    *)

\* The coordinates and the frame index of the last call are all in range
InRange ==
    /\ last.args.x < WidthPx
    /\ last.args.y < HeightPx
    /\ last.args.idx < get_frame_count(last.pre)

\* C9: get(x, y, frame_index) and get_mut(x, y, frame_index) return an absent
\* result, without crashing and without changing the store, whenever
\* x >= width_px or y >= height_px or frame_index >= frame_count; with all
\* three in range they return the pixel at flat index y * width_px + x of
\* that frame.
C9_CheckedAccess ==
    /\ (last.op = "get" /\ ~InRange) =>
            (~panicked /\ last.ret = Some(None) /\ bitmaps = last.pre)
    /\ (last.op = "get_mut" /\ ~InRange) =>
            (~panicked /\ last.ret = Some(FALSE) /\ bitmaps = last.pre)
    /\ (last.op = "get" /\ InRange) =>
            /\ ~panicked
            /\ bitmaps = last.pre
            /\ last.ret = Some(Some(last.pre[last.args.idx + 1]
                                        [last.args.y * WidthPx + last.args.x + 1]))
    /\ (last.op = "get_mut" /\ InRange) =>
            /\ ~panicked
            /\ last.ret = Some(TRUE)
            /\ bitmaps = [last.pre EXCEPT ![last.args.idx + 1]
                                              [last.args.y * WidthPx + last.args.x + 1] =
                                                  last.args.value]

\* get has read a lit pixel off the diagonal
C9_Witness ==
    /\ last.op = "get"
    /\ InRange
    /\ last.args.x # last.args.y
    /\ last.ret = Some(Some(TRUE))

---------------------------------------------------------------------------
(* Invalid input                                                           *)

\* C10: no frame-store or slide operation other than the unchecked indexed
\* accessor crashes on invalid input: for every store state, the empty
\* sequence included, and every index argument, index >= frame_count
\* included, each of duplicate_frame, delete_frame, clear_frame,
\* insert_frame, move_up, move_down, get_bytes, get_frame_as_string and slide
\* completes instead of panicking.
C10_NoCrashOnInvalidInput ==
    last.op \in {"duplicate_frame", "delete_frame", "clear_frame", "insert_frame",
                 "move_up", "move_down", "get_bytes", "get_frame_as_string", "slide"}
        => ~panicked

\* The last call was made with an index the operation has no frame for
InvalidIndex ==
    \/ /\ last.op \in {"slide", "duplicate_frame", "delete_frame", "clear_frame",
                       "move_down"}
       /\ last.args.idx >= get_frame_count(last.pre)
    \/ /\ last.op = "insert_frame"
       /\ last.args.idx > get_frame_count(last.pre)

\* C11: whenever slide, duplicate_frame, delete_frame, clear_frame or
\* move_down is called with index >= frame_count, or insert_frame with
\* index > frame_count, the call is rejected before any mutation: the frame
\* sequence, the frame count and all pixel values are what they were before
\* the call.
C11_NoPartialFailure == InvalidIndex => bitmaps = last.pre

\* slide was called with index frame_count on a store of two frames, the
\* first of them with lit pixels; the call panicked
C11_Witness ==
    /\ last.op = "slide"
    /\ InvalidIndex
    /\ panicked
    /\ Len(last.pre) = 2
    /\ Lit(last.pre[1], width) # {}

\* The offsets 0 .. n - 1 in ascending order
AscendingOrder(n) == [k \in 1..n |-> k - 1]

\* The odd offsets in ascending order, then the even ones
OddsFirstOrder(n) ==
    [k \in 1..n |-> IF k <= n \div 2 THEN 2 * k - 1 ELSE 2 * (k - n \div 2) - 2]

\* C14: the result of slide does not depend on the order in which the
\* offsets are processed: the frames slide has left, processing them in
\* descending order, are the frames it leaves when it processes them in
\* ascending order or odd offsets first, each output frame being computed
\* from the snapshot of the source frame only.
C14_OrderIndependent ==
    Slid =>
        \A order \in {AscendingOrder(AxisLength(width, height, last.args.direction)),
                      OddsFirstOrder(AxisLength(width, height, last.args.direction))} :
            slide_in_order(last.pre, width, height, last.args.idx,
                           last.args.direction, last.args.animation, order)
                = Running(bitmaps)

\* A slide out of a frame with lit pixels on the wide store: the frame at
\* the origin keeps them, the next one has them moved
C14_Witness ==
    /\ Slid
    /\ width = 2
    /\ last.args.animation = "SlideOut"
    /\ Lit(SlideSource, width) # {}
    /\ FrameAt(last.args.idx) = SlideSource
    /\ FrameAt(last.args.idx + 1) # SlideSource

\* The values of the signed 16-bit and of the unsigned 8-bit type
InI16(n) == n \in -32768..32767

InU8(n) == n \in 0..255

\* The pixels of the first row and of the first column of the canvas: every
\* x and every y a pixel can have
RowAndColumn(w, h) == {p \in Canvas(w, h) : p[1] = 0 \/ p[2] = 0}

\* On the constructed store: the pixel count and every flat index are the
\* integers width_px * height_px and y * width_px + x, and fit i16
CountAndIndexFit ==
    last.op = "new" =>
        /\ InI16((width * 8) * (height * 8))
        /\ slide_pixel_count(width, height) = (width * 8) * (height * 8)
        /\ \A p \in Canvas(width, height) :
               /\ InI16(p[2] * (width * 8) + p[1])
               /\ slide_source(width, IVecNew(p[1], p[2])) = p[2] * (width * 8) + p[1]

\* For an offset: the axis length is units * 8 and fits u8; the shift, the
\* scaled vector and the translated coordinates are the integers of the
\* unbounded arithmetic, and fit i16
OffsetFits ==
    last.op = "slide arithmetic" =>
        LET axis == AxisLength(width, height, last.args.direction)
            shift == Shift(last.args.animation, axis, last.args.idx)
            v == StepVector(last.args.direction)
        IN  /\ InU8(axis)
            /\ last.ret.val.dimension = axis
            /\ InI16(shift)
            /\ last.ret.val.shift = shift
            /\ InI16(v[1] * shift) /\ InI16(v[2] * shift)
            /\ last.ret.val.scaled_vector = IVecNew(v[1] * shift, v[2] * shift)
            /\ \A p \in RowAndColumn(width, height) :
                   /\ InI16(p[1] + v[1] * shift) /\ InI16(p[2] + v[2] * shift)
                   /\ IVecAdd(IVecNew(p[1], p[2]), last.ret.val.scaled_vector)
                          = IVecNew(p[1] + v[1] * shift, p[2] + v[2] * shift)

\* C15: for every store with width_units and height_units in [1, 8], every
\* Direction, AnimationKind and offset, no arithmetic in slide overflows: the
\* axis length units * 8 fits an unsigned 8-bit value, and the pixel count,
\* the flat index y * width_px + x, the shift, the scaled displacement and
\* the translated coordinates stay within the signed 16-bit range.
C15_NoOverflow == CountAndIndexFit /\ OffsetFits

\* Offset 0 of a slide in to the left on the largest store: the shift is
\* 63 and the scaled vector (-63, 0)
C15_Witness ==
    /\ width = 8
    /\ height = 8
    /\ last.op = "slide arithmetic"
    /\ last.args.direction = "Left"
    /\ last.args.animation = "SlideIn"
    /\ last.args.idx = 0
    /\ last.ret.val.scaled_vector = IVecNew(-63, 0)

---------------------------------------------------------------------------
(* The editor                                                              *)

\* "Delete frame" on a store of one frame leaves one blank frame
DeleteOnlyFrame ==
    (get_frame_count(bitmaps) = 1 /\ last'.op = "Delete frame" /\ ~panicked') =>
        (get_frame_count(bitmaps') = 1 /\ AllFalse(bitmaps'[1]))

\* C12: after any sequence of editor actions (add, insert, duplicate, move
\* up, move down, delete, clear, slide, new document) from a freshly created
\* document the store holds at least one frame once each action is over;
\* deleting the only frame re-adds one blank frame within the same action.
C12_AtLeastOneFrame == [](get_frame_count(bitmaps) >= 1) /\ [][DeleteOnlyFrame]_vars

\* "Delete frame" has deleted the only frame, which had a lit pixel, and
\* left a blank one
C12_Witness ==
    /\ last.op = "Delete frame"
    /\ ~panicked
    /\ get_frame_count(last.pre) = 1
    /\ ~AllFalse(last.pre[1])
    /\ get_frame_count(bitmaps) = 1
    /\ AllFalse(bitmaps[1])

\* Every frame has one pixel for each pixel of the canvas
FramesFit ==
    \A f \in DOMAIN bitmaps : Len(bitmaps[f]) = (width * 8) * (height * 8)

\* The dimensions stay as they are, but for a newly constructed store
DimensionsStay == last'.op # "New" => (width' = width /\ height' = height)

\* C13: in every state reached from new(width_units, height_units) by
\* add_frame, insert_frame, duplicate_frame, move_up, move_down,
\* delete_frame, clear_frame, pixel writes and slide, every frame has length
\* (width_units * 8) * (height_units * 8), and width_units and height_units
\* are the ones given at construction.
C13_FrameSize == []FramesFit /\ [][DimensionsStay]_vars

\* The store after a slide on three frames: ten frames, all of them fitting
C13_Witness ==
    /\ last.op = "Slide"
    /\ ~panicked
    /\ get_frame_count(bitmaps) = 10
    /\ FramesFit

\* C16: the editor's 1-based cursor satisfies 1 <= current_frame <=
\* frame_count after every editor action (add, insert, duplicate, move up,
\* move down, delete, clear, slide, playback tick, new document) in any
\* order from a new document; so no use of current_frame - 1 as a frame
\* index, in the painter's indexed write or in a store operation, panics.
C16_CursorInRange ==
    /\ cursor \in 1..get_frame_count(bitmaps)
    /\ ~panicked

\* "Delete frame" with the cursor on the last of three frames, the last one
\* painted: the cursor has stepped back onto the new last frame
C16_Witness ==
    /\ last.op = "Delete frame"
    /\ get_frame_count(last.pre) = 3
    /\ last.pre[2] # last.pre[3]
    /\ bitmaps = SubSeq(last.pre, 1, 2)
    /\ cursor = 2

============================================================================
